---- MODULE Spec2Model ----
(***************************************************************************)
(* Flood-risk dashboard (flood-frontend): the state held by App, the      *)
(* asynchronous handlers of MapComponent, FloodPredictionPanel,           *)
(* WardWeatherDetails, WeatherWidget and App, the hover handlers and the  *)
(* Notification timer, and the functions of api.js and StatsCards.        *)
(* Every handler is split at its await: the part before the await is one  *)
(* action, the continuation (fulfilled or rejected) is another.           *)
(***************************************************************************)
EXTENDS Integers, Sequences, FiniteSets, TLC

VARIABLES
    predictions,      \* App useState({}) : key -> stored record
    selectedWard,     \* App useState(null)
    loading,          \* App useState(false), shared by map click and bulk load
    apiStatus,        \* App useState('checking')
    error,            \* App useState(null)
    notification,     \* MapComponent useState('')
    clicks,           \* number of map clicks handled so far
    extras,           \* number of refresh / retry / timer events so far
    clickPending,     \* in-flight predictSingleWard calls of the click handler
    panelPrediction,  \* FloodPredictionPanel useState(null)
    panelWeather,     \* FloodPredictionPanel useState(null)
    panelLoading,     \* FloodPredictionPanel useState(false)
    panelError,       \* FloodPredictionPanel useState(null)
    panelPending,     \* in-flight loadWardPrediction calls (Promise.all)
    wwdLiveData,      \* WardWeatherDetails useState(null)
    wwdLoading,       \* WardWeatherDetails useState(false)
    wwdError,         \* WardWeatherDetails useState(null)
    wwdPending,       \* in-flight fetchLiveWeatherPrediction calls
    healthPending,    \* in-flight checkFloodApiHealth calls
    bulkPending,      \* in-flight getAllWardsFloodPrediction calls
    wwWeather,        \* WeatherWidget useState(null): whether weather is set
    wwLoading,        \* WeatherWidget useState(false)
    wwError,          \* WeatherWidget useState(null)
    wwPending,        \* in-flight fetchWeatherData calls
    hoverStyled,      \* the layer carrying the mouseover style, or null
    notifTimer,       \* seconds left on Notification's setTimeout, 0 if none
    now,              \* the clock new Date() reads
    rawIn,            \* the argument handed to a function of api.js or to
                      \* calculateCentroid
    normOut,          \* the value the function returned
    normAgain,        \* the value a second application returned
    wardsData,        \* MapComponent useState(null): the parsed boundary resource
    wardsPending      \* whether the fetch of the boundary resource is in flight

vars == <<predictions, selectedWard, loading, apiStatus, error, notification,
          clicks, extras, clickPending, panelPrediction, panelWeather,
          panelLoading, panelError, panelPending, wwdLiveData, wwdLoading,
          wwdError, wwdPending, healthPending, bulkPending, wwWeather, wwLoading,
          wwError, wwPending, hoverStyled, notifTimer, now, rawIn, normOut, normAgain,
          wardsData, wardsPending>>

appVars   == <<apiStatus, error, healthPending, bulkPending>>
panelVars == <<panelPrediction, panelWeather, panelLoading, panelError, panelPending>>
wwdVars   == <<wwdLiveData, wwdLoading, wwdError, wwdPending>>
wwVars    == <<wwWeather, wwLoading, wwError, wwPending>>
renderVars == <<hoverStyled, notifTimer>>
fnVars    == <<now, rawIn, normOut, normAgain>>
geoVars   == <<wardsData, wardsPending>>
uiVars    == <<predictions, selectedWard, loading, notification, clicks, extras,
               clickPending>>

----------------------------------------------------------------------------
(* Bounds *)

\* user and timer events (clicks, refreshes, retries, timer ticks) in a run
MaxEvents == 2

----------------------------------------------------------------------------
(* JavaScript values *)

\* null (selectedWard, error)
NULL == "null"
\* a numeric field that is absent from the response (undefined)
Undef == 0 - 1
\* a string field that is absent from the response (undefined)
UndefString == "undefined"
\* response.data === null, and the null returned by formatFloodPrediction
NullRecord == [isNull |-> TRUE]

IsNull(x) == DOMAIN x = {"isNull"}

\* x || d on a numeric field: undefined and 0 are falsy
OrNum(x, d) == IF x = Undef \/ x = 0 THEN d ELSE x

\* Remove the i-th element of a sequence
RemoveAt(s, i) == SubSeq(s, 1, i - 1) \o SubSeq(s, i + 1, Len(s))

\* {...prev, [k]: v}
Spread(prev, k, v) ==
    [x \in DOMAIN prev \cup {k} |-> IF x = k THEN v ELSE prev[x]]

EmptyMap == [x \in {} |-> NullRecord]

----------------------------------------------------------------------------
(* Region boundaries: the properties of the GeoJSON features *)

\* The features of /mumbai-wards-cleaned.geojson the model draws from: the
\* properties the handlers read, and whether geometry.coordinates[0] exists
Features ==
    {[ward_name_full |-> "Ward A", ward_code |-> "A", hasRing |-> TRUE],
     [ward_name_full |-> "Ward H/E", ward_code |-> "H/E", hasRing |-> TRUE]}

\* the features of the map, one of them with geometry.coordinates = []
MapFeatures ==
    Features \cup {[ward_name_full |-> "Ward B", ward_code |-> "B", hasRing |-> FALSE]}

\* what response.json() of the boundary resource can yield: the feature
\* collection, a collection without features, an object that is no GeoJSON
\* (the JSON body of an error answer), and the JSON value null
GeoJsonData == [type |-> "FeatureCollection", features |-> MapFeatures]
BoundaryBodies ==
    {GeoJsonData,
     [type |-> "FeatureCollection", features |-> {}],
     [detail |-> "Not Found"],
     NullRecord}

\* a parsed body that has the shape of a feature collection
IsFeatureCollection(data) == DOMAIN data = {"type", "features"}

\* {wardsData && (<GeoJSON data={wardsData} ... />)}: the layer is mounted
\* whenever wardsData is truthy
GeoJsonMounted == ~IsNull(wardsData)

\* the features the GeoJSON layer draws and binds its handlers to
Regions ==
    IF GeoJsonMounted /\ IsFeatureCollection(wardsData) THEN wardsData.features ELSE {}

\* feature.properties.ward_name_full || "Unknown Ward"
ClickWardName(f) == IF f.ward_name_full = "" THEN "Unknown Ward" ELSE f.ward_name_full
\* feature.properties.ward_code || "N/A"
ClickWardCode(f) == IF f.ward_code = "" THEN "N/A" ELSE f.ward_code
\* the key getFeatureStyle looks a feature up with
StyleWardName(f) == IF f.ward_name_full = "" THEN "Unknown" ELSE f.ward_name_full

\* The feature a key of the predictions map belongs to: a key is either a
\* feature's ward_name_full or its ward_code
FeaturesOfKey(k) == {f \in Features : k = f.ward_name_full \/ k = f.ward_code}

----------------------------------------------------------------------------
(* Backend responses.  Probabilities are in percent (82 is 0.82). *)

\* The body of POST /predict/ward/{code} as the handlers read it:
\* random_forest.flood_risk_level, random_forest.will_flood,
\* bayesian_probability, combined_assessment.high_risk, timestamp.  Undef is
\* an absent field.
BackendTime == 1

Raw(code, level, flood, prob, high) ==
    [ward_code |-> code, flood_risk_level |-> level, will_flood |-> flood,
     bayesian_probability |-> prob, high_risk |-> high, timestamp |-> BackendTime]

\* The (flood_risk_level, will_flood, bayesian_probability, high_risk)
\* combinations the backend answers with in the interactive model
RawSamples ==
    { <<2, TRUE, 82, TRUE>>,
      <<Undef, FALSE, Undef, FALSE>> }

RawFor(code, s) == Raw(code, s[1], s[2], s[3], s[4])

\* The bodies the backend answers a request about `code` with
Responses(code) == {RawFor(code, s) : s \in RawSamples}

\* The elements of response.predictions for `code`: a body or null
BulkElements(code) == Responses(code) \cup {NullRecord}

\* The body of GET /weather/current/{code}
Weather(code) == [ward |-> code]

\* Failures of an axios call: an HTTP status (503, 404, 500) or no response
AllFailures == {"503", "404", "500", "none"}
\* the failure the backend produces in the interactive model; the handlers
\* do not branch on the kind of failure, only the message differs
Failures == {"503"}

\* error.message of the raw axios error
AxiosMessage(e) ==
    CASE e = "503" -> "Request failed with status code 503"
      [] e = "404" -> "Request failed with status code 404"
      [] e = "500" -> "Request failed with status code 500"
      [] OTHER -> "Network Error"

----------------------------------------------------------------------------
(* api.js: pure helpers *)

\* getRiskLevel(probability)
getRiskLevel(probability) ==
    IF probability >= 70 THEN "Critical"
    ELSE IF probability >= 30 THEN "High"
    ELSE IF probability >= 10 THEN "Medium"
    ELSE "Low"

\* String.prototype.toLowerCase on the category names
toLowerCase(s) ==
    CASE s \in {"Critical", "critical"} -> "critical"
      [] s \in {"High", "high"} -> "high"
      [] s \in {"Medium", "medium"} -> "medium"
      [] s \in {"Low", "low"} -> "low"
      [] OTHER -> s

\* formatFloodPrediction with the timestamp always read from the clock
formatFloodPredictionClock(prediction) ==
    IF IsNull(prediction) THEN NullRecord
    ELSE [wardCode |-> prediction.ward_code,
          riskLevel |-> OrNum(prediction.flood_risk_level, 0),
          willFlood |-> prediction.will_flood,
          bayesianProbability |-> OrNum(prediction.bayesian_probability, 0),
          highRisk |-> prediction.high_risk,
          timestamp |-> now]

\* formatFloodPrediction(prediction); new Date().toISOString() is `now`
formatFloodPrediction(prediction) ==
    IF IsNull(prediction) THEN NullRecord
    ELSE [wardCode |-> prediction.ward_code,
          riskLevel |-> OrNum(prediction.flood_risk_level, 0),
          willFlood |-> prediction.will_flood,
          bayesianProbability |-> OrNum(prediction.bayesian_probability, 0),
          highRisk |-> prediction.high_risk,
          timestamp |-> OrNum(prediction.timestamp, now)]

----------------------------------------------------------------------------
(* MapComponent: pure helpers *)

\* getRiskColor(riskLevel); riskLevel may be undefined
getRiskColor(riskLevel) ==
    CASE toLowerCase(riskLevel) = "low" -> "#34a853"
      [] toLowerCase(riskLevel) = "medium" -> "#fbbc04"
      [] toLowerCase(riskLevel) = "high" -> "#ea4335"
      [] toLowerCase(riskLevel) = "critical" -> "#ea4335"
      [] OTHER -> "#4285f4"

\* prediction.risk_level of a stored record; undefined when the record has
\* no such field
StyleRiskLevel(rec) == IF "risk_level" \in DOMAIN rec THEN rec.risk_level ELSE UndefString

\* getFeatureStyle(feature) over the props predictions and selectedWard
getFeatureStyle(f) ==
    LET wardName == StyleWardName(f)
        analyzed == wardName \in DOMAIN predictions /\ ~IsNull(predictions[wardName])
        isSelected == selectedWard = wardName
    IN [fillColor |-> IF analyzed THEN getRiskColor(StyleRiskLevel(predictions[wardName]))
                      ELSE "#f8f9fa",
        weight |-> IF isSelected THEN 4 ELSE 2,
        opacity |-> 1,
        color |-> IF isSelected THEN "#007bff" ELSE "#495057",
        dashArray |-> IF analyzed THEN "" ELSE "5, 5",
        fillOpacity |-> IF analyzed THEN 80 ELSE 30]

\* risk_level of enhancedPrediction
ClickRiskLevel(prediction) ==
    IF prediction.flood_risk_level = 2 THEN "high"
    ELSE IF prediction.flood_risk_level = 1 THEN "medium"
    ELSE "low"

\* bayesian_network.risk_level of enhancedPrediction
ClickBayesianRiskLevel(prediction) ==
    IF OrNum(prediction.bayesian_probability, 0) > 70 THEN "High"
    ELSE IF OrNum(prediction.bayesian_probability, 0) > 30 THEN "Medium"
    ELSE "Low"

\* The record the click handler stores (enhancedPrediction)
enhancedPrediction(prediction, wardName, wardCode) ==
    [flood_risk_probability |-> prediction.bayesian_probability,
     risk_level |-> ClickRiskLevel(prediction),
     will_flood |-> prediction.will_flood,
     overall_assessment |->
        [combined_risk_level |-> IF prediction.high_risk THEN "High" ELSE "Low",
         combined_flood_probability |-> OrNum(prediction.bayesian_probability, 0)],
     random_forest |->
        [risk_level |-> IF prediction.flood_risk_level = 2 THEN "High"
                        ELSE IF prediction.flood_risk_level = 1 THEN "Medium"
                        ELSE "Low"],
     bayesian_network |->
        [flood_probability |-> OrNum(prediction.bayesian_probability, 0),
         risk_level |-> ClickBayesianRiskLevel(prediction)],
     timestamp |-> prediction.timestamp,
     wardDetails |-> [name |-> wardName, code |-> wardCode]]

\* Which writer a stored record comes from
IsClickRecord(rec) == "risk_level" \in DOMAIN rec
IsFormattedRecord(rec) == "riskLevel" \in DOMAIN rec

----------------------------------------------------------------------------
(* StatsCards *)

\* prediction.riskLevel, prediction.willFlood and
\* prediction.bayesianProbability || 0 of a stored record; a record without
\* the field reads undefined
StatsRiskLevel(rec) == IF "riskLevel" \in DOMAIN rec THEN rec.riskLevel ELSE Undef
StatsWillFlood(rec) == IF "willFlood" \in DOMAIN rec THEN rec.willFlood ELSE FALSE
StatsProbability(rec) ==
    IF "bayesianProbability" \in DOMAIN rec THEN OrNum(rec.bayesianProbability, 0) ELSE 0

\* the sum of f over the keys
RECURSIVE SumOver(_, _)
SumOver(f, keys) ==
    IF keys = {} THEN 0
    ELSE LET k == CHOOSE x \in keys : TRUE
         IN f[k] + SumOver(f, keys \ {k})

\* (x * 100).toFixed(1) of the quotient num / den of two percentages, in
\* tenths of a percent
toFixed1(num, den) == (20 * num + den) \div (2 * den)

\* calculateStats() over a predictions map
calculateStats(preds) ==
    LET totalWards == Cardinality(DOMAIN preds)
        sum == SumOver([k \in DOMAIN preds |-> StatsProbability(preds[k])], DOMAIN preds)
    IN [totalWards |-> totalWards,
        lowRisk |-> Cardinality({k \in DOMAIN preds : StatsRiskLevel(preds[k]) = 0}),
        mediumRisk |-> Cardinality({k \in DOMAIN preds : StatsRiskLevel(preds[k]) = 1}),
        highRisk |-> Cardinality({k \in DOMAIN preds : StatsRiskLevel(preds[k]) = 2}),
        floodExpected |-> Cardinality({k \in DOMAIN preds : StatsWillFlood(preds[k])}),
        avgBayesianProb |-> IF totalWards > 0 THEN toFixed1(sum, totalWards) ELSE 0]

----------------------------------------------------------------------------
(* api.js: error translation of the client functions *)

\* predictSingleWard rethrows the axios error
predictSingleWardError(wardId, e) == AxiosMessage(e)

\* getWardFloodPrediction
getWardFloodPredictionError(wardCode, e) ==
    IF e = "503" THEN "Flood prediction models not initialized. Please check server status."
    ELSE IF e = "404" THEN "Weather data not available for ward " \o wardCode
    ELSE IF e = "500" THEN "Prediction error for ward " \o wardCode \o ". Please try again."
    ELSE AxiosMessage(e)

\* getWardCurrentWeather
getWardCurrentWeatherError(wardCode, e) ==
    IF e = "503" THEN "Weather service not initialized."
    ELSE AxiosMessage(e)

\* getAllWardsFloodPrediction
getAllWardsFloodPredictionError(e) ==
    IF e = "503" THEN "Flood prediction models not initialized. Please check server status."
    ELSE AxiosMessage(e)

\* checkFloodApiHealth
checkFloodApiHealthError(e) ==
    "Flood prediction API is not responding. Make sure the server is running on http://127.0.0.1:8000"

\* the template literal of the click handler's catch block, as its parts:
\* `Error connecting to backend: ${error.message}. Make sure the server is running.`
ErrorNotification(message) ==
    <<"Error connecting to backend: ", message, ". Make sure the server is running.">>

\* the empty notification ''
NoNotification == <<>>

\* message of the TypeError thrown by a property read on null
TypeErrorMessage == "Cannot read properties of null"

----------------------------------------------------------------------------
(* Rendering: what a commit of App's tree does to the map layers and to    *)
(* Notification's timer                                                    *)

\* setTimeout(..., 5000) of Notification, in seconds
NotificationTimeout == 5

\* A state setter called with the value the state already has renders
\* nothing; MapComponent is rendered again when state of App or of
\* MapComponent changes
MapRendered ==
    \/ loading' # loading
    \/ notification' # notification
    \/ selectedWard' # selectedWard
    \/ apiStatus' # apiStatus
    \/ error' # error
    \/ predictions' # predictions
    \/ wardsData' # wardsData

\* The effects of a step on what is rendered.  `fresh` says that the step
\* stores a newly created object (wardCoordinates, lastUpdated,
\* currentWeather), which always renders.  <GeoJSON key={JSON.stringify(
\* predictions)}> creates its layers anew when predictions changes, so the
\* mouseover style is gone; Notification's effect depends on [message,
\* onClose] and onClose is a new arrow function in every render of
\* MapComponent, so every render with a message restarts the timer.
RenderEffects(fresh) ==
    /\ hoverStyled' = IF hoverStyled = NULL \/ predictions' # predictions
                         THEN NULL ELSE hoverStyled
    /\ notifTimer' = IF notification' = NoNotification THEN 0
                      ELSE IF fresh \/ MapRendered THEN NotificationTimeout
                      ELSE notifTimer

----------------------------------------------------------------------------
(* Initial state: App mounted, checkApiHealth() called by the mount effect *)

Init ==
    /\ predictions = EmptyMap
    /\ selectedWard = NULL
    /\ loading = FALSE
    /\ apiStatus = "checking"
    /\ error = NULL
    /\ notification = NoNotification
    /\ clicks = 0
    /\ extras = 0
    /\ clickPending = <<>>
    /\ panelPrediction = NullRecord
    /\ panelWeather = NullRecord
    /\ panelLoading = FALSE
    /\ panelError = NULL
    /\ panelPending = <<>>
    /\ wwdLiveData = NullRecord
    /\ wwdLoading = FALSE
    /\ wwdError = NULL
    /\ wwdPending = <<>>
    /\ healthPending = 1
    /\ bulkPending = 0
    /\ wwWeather = FALSE
    /\ wwLoading = TRUE
    /\ wwError = NULL
    /\ wwPending = <<[by |-> "effect"]>>
    /\ hoverStyled = NULL
    /\ notifTimer = 0
    /\ now = 1
    /\ rawIn = NullRecord
    /\ normOut = [fn |-> "none"]
    /\ normAgain = [fn |-> "none"]
    /\ wardsData = NullRecord
    /\ wardsPending = TRUE

----------------------------------------------------------------------------
(* FloodPredictionPanel *)

\* loadWardPrediction(wardCode) up to its await
PanelStart(wardCode, seq) ==
    /\ panelLoading' = TRUE
    /\ panelError' = NULL
    /\ panelPending' = Append(panelPending, [ward |-> wardCode, seq |-> seq])
    /\ UNCHANGED <<panelPrediction, panelWeather>>

\* loadWardPrediction after Promise.all fulfilled; onPredictionUpdate is
\* Dashboard's setPredictions(prev => ({...prev, [wardCode]: prediction}))
PanelResolve(i, predictionData, weatherData) ==
    /\ panelPrediction' = formatFloodPrediction(predictionData)
    /\ panelWeather' = weatherData
    /\ predictions' = Spread(predictions, panelPending[i].ward,
                             formatFloodPrediction(predictionData))
    /\ panelLoading' = FALSE
    /\ panelPending' = RemoveAt(panelPending, i)
    /\ UNCHANGED panelError
    /\ UNCHANGED <<selectedWard, loading, notification, clicks, extras,
                   clickPending, appVars, wwdVars>>
    /\ UNCHANGED <<fnVars, wwVars, geoVars>>
    /\ RenderEffects(FALSE)

\* a loadWardPrediction that awaits its two requests one by one and commits
\* the prediction before the weather request fails
PanelRejectPartial(i, message) ==
    /\ \E predictionData \in Responses(panelPending[i].ward) :
          /\ panelPrediction' = formatFloodPrediction(predictionData)
          /\ predictions' = Spread(predictions, panelPending[i].ward,
                                   formatFloodPrediction(predictionData))
    /\ panelError' = message
    /\ panelLoading' = FALSE
    /\ panelPending' = RemoveAt(panelPending, i)
    /\ UNCHANGED panelWeather
    /\ UNCHANGED <<selectedWard, loading, notification, clicks,
                   extras, clickPending, appVars, wwdVars>>
    /\ UNCHANGED <<fnVars, wwVars, geoVars>>
    /\ RenderEffects(FALSE)

\* loadWardPrediction after Promise.all rejected
PanelReject(i, message) ==
    /\ panelError' = message
    /\ panelLoading' = FALSE
    /\ panelPending' = RemoveAt(panelPending, i)
    /\ UNCHANGED <<panelPrediction, panelWeather>>
    /\ UNCHANGED <<predictions, selectedWard, loading, notification, clicks,
                   extras, clickPending, appVars, wwdVars>>
    /\ UNCHANGED <<fnVars, wwVars, geoVars>>
    /\ RenderEffects(FALSE)

\* handleRefresh without its `if (selectedWard)` test
PanelRefreshUnguarded ==
    /\ clicks + extras < MaxEvents
    /\ ~panelLoading
    /\ extras' = extras + 1
    /\ PanelStart(selectedWard, clicks)
    /\ UNCHANGED <<predictions, selectedWard, loading, notification, clicks,
                   clickPending, appVars, wwdVars>>
    /\ UNCHANGED <<fnVars, wwVars, geoVars>>
    /\ RenderEffects(FALSE)

\* handleRefresh: the Try Again / Load Data / refresh buttons, which are
\* rendered only when a ward is selected and the panel is not loading
PanelRefresh ==
    /\ clicks + extras < MaxEvents
    /\ selectedWard # NULL
    /\ ~panelLoading
    /\ extras' = extras + 1
    /\ PanelStart(selectedWard, clicks)
    /\ UNCHANGED <<predictions, selectedWard, loading, notification, clicks,
                   clickPending, appVars, wwdVars>>
    /\ UNCHANGED <<fnVars, wwVars, geoVars>>
    /\ RenderEffects(FALSE)

----------------------------------------------------------------------------
(* WardWeatherDetails *)

\* fetchLiveWeatherPrediction up to its await; `by` is its caller: the
\* effect ("effect"), setInterval ("interval") or a button ("button")
WwdStart(ward, seq, by) ==
    /\ wwdLoading' = TRUE
    /\ wwdError' = NULL
    /\ wwdPending' = Append(wwdPending, [ward |-> ward, seq |-> seq, by |-> by])
    /\ UNCHANGED wwdLiveData

\* fetchLiveWeatherPrediction after Promise.all fulfilled: a null prediction
\* body makes floodPrediction.combined_assessment throw into the catch block
WwdResolve(i, weatherData, floodPrediction) ==
    /\ IF IsNull(floodPrediction)
          THEN /\ wwdError' = TypeErrorMessage
               /\ UNCHANGED wwdLiveData
          ELSE /\ wwdLiveData' =
                    [flood_probability |-> OrNum(floodPrediction.bayesian_probability, 0),
                     level |-> IF floodPrediction.high_risk THEN "high" ELSE "low",
                     ward |-> weatherData.ward]
               /\ UNCHANGED wwdError
    /\ wwdLoading' = FALSE
    /\ wwdPending' = RemoveAt(wwdPending, i)
    /\ UNCHANGED <<predictions, selectedWard, loading, notification, clicks,
                   extras, clickPending, appVars, panelVars>>
    /\ UNCHANGED <<fnVars, wwVars, geoVars>>
    /\ RenderEffects(FALSE)

\* fetchLiveWeatherPrediction after Promise.all rejected
WwdReject(i, message) ==
    /\ wwdError' = message
    /\ wwdLoading' = FALSE
    /\ wwdPending' = RemoveAt(wwdPending, i)
    /\ UNCHANGED wwdLiveData
    /\ UNCHANGED <<predictions, selectedWard, loading, notification, clicks,
                   extras, clickPending, appVars, panelVars>>
    /\ UNCHANGED <<fnVars, wwVars, geoVars>>
    /\ RenderEffects(FALSE)

\* setInterval(fetchLiveWeatherPrediction, 5 * 60 * 1000)
WwdTimer ==
    /\ clicks + extras < MaxEvents
    /\ selectedWard # NULL
    /\ extras' = extras + 1
    /\ WwdStart(selectedWard, clicks, "interval")
    /\ UNCHANGED <<predictions, selectedWard, loading, notification, clicks,
                   clickPending, appVars, panelVars>>
    /\ UNCHANGED <<fnVars, wwVars, geoVars>>
    /\ RenderEffects(FALSE)

\* the Retry button (shown with the error) and the Refresh Live Data
\* button (shown with the data when not loading)
WwdRetry ==
    /\ clicks + extras < MaxEvents
    /\ selectedWard # NULL
    /\ wwdError # NULL \/ (~IsNull(wwdLiveData) /\ ~wwdLoading)
    /\ extras' = extras + 1
    /\ WwdStart(selectedWard, clicks, "button")
    /\ UNCHANGED <<predictions, selectedWard, loading, notification, clicks,
                   clickPending, appVars, panelVars>>
    /\ UNCHANGED <<fnVars, wwVars, geoVars>>
    /\ RenderEffects(FALSE)

----------------------------------------------------------------------------
(* WeatherWidget: the weather of ward A, fetched on mount *)

\* fetchWeatherData up to its await; `by` is its caller
WwStart(by) ==
    /\ wwLoading' = TRUE
    /\ wwError' = NULL
    /\ wwPending' = Append(wwPending, [by |-> by])
    /\ UNCHANGED wwWeather

\* fetchWeatherData after getWardCurrentWeather fulfilled; onWeatherUpdate
\* stores the new weather object in Dashboard
WwResolve(i) ==
    /\ wwPending' = RemoveAt(wwPending, i)
    /\ wwWeather' = TRUE
    /\ wwLoading' = FALSE
    /\ UNCHANGED wwError
    /\ UNCHANGED <<geoVars, uiVars, appVars, panelVars, wwdVars, fnVars>>
    /\ RenderEffects(TRUE)

\* fetchWeatherData after getWardCurrentWeather rejected, re-issuing the
\* request from the catch block
WwRejectRetry(i, e) ==
    /\ wwPending' = Append(RemoveAt(wwPending, i), [by |-> "catch"])
    /\ wwError' = getWardCurrentWeatherError("A", e)
    /\ wwLoading' = FALSE
    /\ UNCHANGED wwWeather
    /\ UNCHANGED <<geoVars, uiVars, appVars, panelVars, wwdVars, fnVars>>
    /\ RenderEffects(FALSE)

\* fetchWeatherData after getWardCurrentWeather rejected
WwReject(i, e) ==
    /\ wwPending' = RemoveAt(wwPending, i)
    /\ wwError' = getWardCurrentWeatherError("A", e)
    /\ wwLoading' = FALSE
    /\ UNCHANGED wwWeather
    /\ UNCHANGED <<geoVars, uiVars, appVars, panelVars, wwdVars, fnVars>>
    /\ RenderEffects(FALSE)

\* setInterval(fetchWeatherData, 10 * 60 * 1000)
WwTimer ==
    /\ clicks + extras < MaxEvents
    /\ extras' = extras + 1
    /\ WwStart("interval")
    /\ UNCHANGED <<predictions, selectedWard, loading, notification, clicks,
                   clickPending, appVars, panelVars, wwdVars, fnVars, geoVars>>
    /\ RenderEffects(FALSE)

\* the Retry button (shown with the error while no weather is set) and the
\* Refresh button (shown with the weather, disabled while loading)
WwRetry ==
    /\ clicks + extras < MaxEvents
    /\ ~wwLoading
    /\ wwWeather \/ wwError # NULL
    /\ extras' = extras + 1
    /\ WwStart("button")
    /\ UNCHANGED <<predictions, selectedWard, loading, notification, clicks,
                   clickPending, appVars, panelVars, wwdVars, fnVars, geoVars>>
    /\ RenderEffects(FALSE)

----------------------------------------------------------------------------
(* MapComponent: the click handler of onEachFeature *)

\* click up to its await, with the effects the re-render runs:
\* FloodPredictionPanel's effect on [selectedWard] and WardWeatherDetails'
\* effect on [selectedWard, wardCoordinates].  A feature without an outer
\* ring makes coordinates.latitude throw after the two setters.
Click(f) ==
    /\ f \in Regions
    /\ clicks + extras < MaxEvents
    /\ clicks' = clicks + 1
    /\ selectedWard' = ClickWardName(f)
    /\ loading' = TRUE
    /\ IF f.hasRing
          THEN clickPending' = Append(clickPending,
                    [wardName |-> ClickWardName(f), wardCode |-> ClickWardCode(f),
                     seq |-> clicks + 1])
          ELSE UNCHANGED clickPending
    /\ IF selectedWard # ClickWardName(f)
          THEN PanelStart(ClickWardName(f), clicks + 1)
          ELSE UNCHANGED panelVars
    /\ IF selectedWard # ClickWardName(f) \/ f.hasRing
          THEN WwdStart(ClickWardName(f), clicks + 1, "effect")
          ELSE UNCHANGED wwdVars
    /\ UNCHANGED <<predictions, notification, extras, appVars>>
    /\ UNCHANGED <<fnVars, wwVars, geoVars>>
    /\ RenderEffects(f.hasRing)

\* click after predictSingleWard fulfilled: a null body makes
\* prediction.bayesian_probability throw into the catch block
ClickResolve(i, prediction) ==
    /\ IF IsNull(prediction)
          THEN /\ notification' = ErrorNotification(TypeErrorMessage)
               /\ UNCHANGED predictions
          ELSE /\ predictions' = Spread(predictions, clickPending[i].wardName,
                        enhancedPrediction(prediction, clickPending[i].wardName,
                                           clickPending[i].wardCode))
               /\ UNCHANGED notification
    /\ loading' = FALSE
    /\ clickPending' = RemoveAt(clickPending, i)
    /\ UNCHANGED <<selectedWard, clicks, extras, appVars, panelVars, wwdVars>>
    /\ UNCHANGED <<fnVars, wwVars, geoVars>>
    /\ RenderEffects(FALSE)

\* ClickReject without the finally block: loading is not cleared
ClickRejectNoFinally(i, e) ==
    /\ notification' = ErrorNotification(AxiosMessage(e))
    /\ clickPending' = RemoveAt(clickPending, i)
    /\ UNCHANGED <<predictions, selectedWard, loading, clicks, extras, appVars,
                   panelVars, wwdVars>>
    /\ UNCHANGED <<fnVars, wwVars, geoVars>>
    /\ RenderEffects(FALSE)

\* click after predictSingleWard rejected
ClickReject(i, e) ==
    /\ notification' = ErrorNotification(
                          predictSingleWardError(clickPending[i].wardCode, e))
    /\ loading' = FALSE
    /\ clickPending' = RemoveAt(clickPending, i)
    /\ UNCHANGED <<predictions, selectedWard, clicks, extras, appVars,
                   panelVars, wwdVars>>
    /\ UNCHANGED <<fnVars, wwVars, geoVars>>
    /\ RenderEffects(FALSE)

----------------------------------------------------------------------------
(* App *)

\* loadAllPredictions up to its await
loadAllPredictionsStart ==
    /\ loading' = TRUE
    /\ error' = NULL
    /\ bulkPending' = bulkPending + 1

\* checkApiHealth up to its await
checkApiHealthStart ==
    /\ apiStatus' = "checking"
    /\ healthPending' = healthPending + 1

\* checkApiHealth without the models_loaded test: every fulfilled health
\* check starts loadAllPredictions
HealthResolveUngated(models_loaded) ==
    /\ healthPending > 0
    /\ healthPending' = healthPending - 1
    /\ apiStatus' = "connected"
    /\ loadAllPredictionsStart
    /\ UNCHANGED <<predictions, selectedWard, notification, clicks, extras,
                   clickPending, panelVars, wwdVars>>
    /\ UNCHANGED <<fnVars, wwVars, geoVars>>
    /\ RenderEffects(FALSE)

\* checkApiHealth after checkFloodApiHealth fulfilled
HealthResolve(models_loaded) ==
    /\ healthPending > 0
    /\ healthPending' = healthPending - 1
    /\ apiStatus' = "connected"
    /\ IF models_loaded
          THEN loadAllPredictionsStart
          ELSE UNCHANGED <<loading, error, bulkPending>>
    /\ UNCHANGED <<predictions, selectedWard, notification, clicks, extras,
                   clickPending, panelVars, wwdVars>>
    /\ UNCHANGED <<fnVars, wwVars, geoVars>>
    /\ RenderEffects(FALSE)

\* checkApiHealth after checkFloodApiHealth rejected
HealthReject(e) ==
    /\ healthPending > 0
    /\ healthPending' = healthPending - 1
    /\ apiStatus' = "error"
    /\ error' = checkFloodApiHealthError(e)
    /\ UNCHANGED <<predictions, selectedWard, loading, notification, clicks,
                   extras, clickPending, bulkPending, panelVars, wwdVars>>
    /\ UNCHANGED <<fnVars, wwVars, geoVars>>
    /\ RenderEffects(FALSE)

\* response.predictions of GET /predict/all-wards: one body per ward, each
\* possibly null
BulkResponses ==
    {response \in [{f.ward_code : f \in Features} ->
                      UNION {BulkElements(f.ward_code) : f \in Features}] :
        \A code \in DOMAIN response : response[code] \in BulkElements(code)}

\* formattedPredictions built by the forEach of loadAllPredictions
FormattedPredictions(response) ==
    [code \in DOMAIN response |-> formatFloodPrediction(response[code])]

\* loadAllPredictions after getAllWardsFloodPrediction fulfilled: a null
\* element makes formatted.wardCode throw into the catch block, before
\* setPredictions and setLastUpdated(new Date())
BulkResolve(response) ==
    /\ bulkPending > 0
    /\ bulkPending' = bulkPending - 1
    /\ IF \E code \in DOMAIN response : IsNull(response[code])
          THEN /\ error' = TypeErrorMessage
               /\ UNCHANGED predictions
          ELSE /\ predictions' = FormattedPredictions(response)
               /\ UNCHANGED error
    /\ loading' = FALSE
    /\ UNCHANGED <<selectedWard, apiStatus, notification, clicks, extras,
                   clickPending, healthPending, panelVars, wwdVars>>
    /\ UNCHANGED <<fnVars, wwVars, geoVars>>
    /\ RenderEffects(\A code \in DOMAIN response : ~IsNull(response[code]))

\* loadAllPredictions after getAllWardsFloodPrediction rejected
BulkReject(e) ==
    /\ bulkPending > 0
    /\ bulkPending' = bulkPending - 1
    /\ error' = getAllWardsFloodPredictionError(e)
    /\ loading' = FALSE
    /\ UNCHANGED <<predictions, selectedWard, apiStatus, notification, clicks,
                   extras, clickPending, healthPending, panelVars, wwdVars>>
    /\ UNCHANGED <<fnVars, wwVars, geoVars>>
    /\ RenderEffects(FALSE)

\* handleRefresh: the dashboard's Refresh button
AppRefresh ==
    /\ clicks + extras < MaxEvents
    /\ extras' = extras + 1
    /\ IF apiStatus = "connected"
          THEN loadAllPredictionsStart /\ UNCHANGED <<apiStatus, healthPending>>
          ELSE checkApiHealthStart /\ UNCHANGED <<loading, error, bulkPending>>
    /\ UNCHANGED <<predictions, selectedWard, notification, clicks,
                   clickPending, panelVars, wwdVars>>
    /\ UNCHANGED <<fnVars, wwVars, geoVars>>
    /\ RenderEffects(FALSE)

\* the Retry Connection button of the error banner
RetryConnection ==
    /\ clicks + extras < MaxEvents
    /\ error # NULL
    /\ extras' = extras + 1
    /\ checkApiHealthStart
    /\ UNCHANGED <<predictions, selectedWard, loading, error, notification,
                   clicks, clickPending, bulkPending, panelVars, wwdVars>>
    /\ UNCHANGED <<fnVars, wwVars, geoVars>>
    /\ RenderEffects(FALSE)

----------------------------------------------------------------------------
(* Notification *)

\* onClose: the 5 second timer or the close button
NotificationClose ==
    /\ notification # NoNotification
    /\ notification' = NoNotification
    /\ UNCHANGED <<predictions, selectedWard, loading, clicks, extras,
                   clickPending, appVars, panelVars, wwdVars>>
    /\ UNCHANGED <<fnVars, wwVars, geoVars>>
    /\ RenderEffects(FALSE)

----------------------------------------------------------------------------
(* MapComponent: loading the region boundaries *)

\* fetch("/mumbai-wards-cleaned.geojson") fulfilled and response.json()
\* parsed the body: setWardsData(data), whatever the body is
BoundaryResolve(data) ==
    /\ wardsPending
    /\ wardsPending' = FALSE
    /\ wardsData' = data
    /\ UNCHANGED <<uiVars, appVars, panelVars, wwdVars, wwVars, fnVars>>
    /\ RenderEffects(FALSE)

\* the fetch was rejected or response.json() could not parse the body: the
\* catch handler only logs
BoundaryReject ==
    /\ wardsPending
    /\ wardsPending' = FALSE
    /\ UNCHANGED wardsData
    /\ UNCHANGED <<uiVars, appVars, panelVars, wwdVars, wwVars, fnVars>>
    /\ RenderEffects(FALSE)

----------------------------------------------------------------------------
(* Specification *)

\* the messages loadWardPrediction's Promise.all can reject with
PanelMessages(wardCode) ==
    {getWardFloodPredictionError(wardCode, e) : e \in Failures}
        \cup {getWardCurrentWeatherError(wardCode, e) : e \in Failures}

Next ==
    \/ \E data \in BoundaryBodies : BoundaryResolve(data)
    \/ BoundaryReject
    \/ \E f \in Features : Click(f)
    \/ \E i \in DOMAIN clickPending :
          \E prediction \in Responses(clickPending[i].wardCode) :
             ClickResolve(i, prediction)
    \/ \E i \in DOMAIN clickPending : \E e \in Failures : ClickReject(i, e)
    \/ \E i \in DOMAIN panelPending :
          \E predictionData \in Responses(panelPending[i].ward) :
             PanelResolve(i, predictionData, Weather(panelPending[i].ward))
    \/ \E i \in DOMAIN panelPending :
          \E message \in PanelMessages(panelPending[i].ward) : PanelReject(i, message)
    \/ PanelRefresh
    \/ \E models_loaded \in BOOLEAN : HealthResolve(models_loaded)
    \/ \E e \in Failures : HealthReject(e)
    \/ \E response \in BulkResponses : BulkResolve(response)
    \/ \E e \in Failures : BulkReject(e)
    \/ AppRefresh
    \/ RetryConnection
    \/ NotificationClose

Spec == Init /\ [][Next]_vars

----------------------------------------------------------------------------
(* The side panels on their own: selection, the panel's load, the two      *)
(* weather components, their buttons and their interval timers             *)

NextRefresh ==
    \/ \E data \in BoundaryBodies : BoundaryResolve(data)
    \/ BoundaryReject
    \/ \E f \in Features : Click(f)
    \/ \E i \in DOMAIN panelPending :
          \E predictionData \in Responses(panelPending[i].ward) :
             PanelResolve(i, predictionData, Weather(panelPending[i].ward))
    \/ \E i \in DOMAIN panelPending :
          \E message \in PanelMessages(panelPending[i].ward) : PanelReject(i, message)
    \/ PanelRefresh
    \/ \E i \in DOMAIN wwdPending :
          \E floodPrediction \in Responses(wwdPending[i].ward) :
             WwdResolve(i, Weather(wwdPending[i].ward), floodPrediction)
    \/ \E i \in DOMAIN wwdPending :
          \E message \in PanelMessages(wwdPending[i].ward) : WwdReject(i, message)
    \/ WwdTimer
    \/ WwdRetry
    \/ \E i \in DOMAIN wwPending : WwResolve(i)
    \/ \E i \in DOMAIN wwPending : \E e \in Failures : WwReject(i, e)
    \/ WwTimer
    \/ WwRetry

SpecRefresh == Init /\ [][NextRefresh]_vars

----------------------------------------------------------------------------
(* The map on its own: clicks, hovering, the notification's timer and the  *)
(* initial bulk load, over features that include one without outer ring    *)


\* the style mouseover sets on a layer: layer.setStyle merges these options
\* into the layer's style
HoverStyle(f) ==
    LET wardName == ClickWardName(f)
        analyzed == wardName \in DOMAIN predictions /\ ~IsNull(predictions[wardName])
    IN [getFeatureStyle(f) EXCEPT
          !.weight = 4,
          !.color = "#007bff",
          !.dashArray = "",
          !.fillOpacity = IF analyzed THEN 90 ELSE 60,
          !.fillColor = IF analyzed
                           THEN getRiskColor(StyleRiskLevel(predictions[wardName]))
                           ELSE "#e3f2fd"]

\* the style a layer is drawn with
LayerStyle(f) ==
    IF hoverStyled = f.ward_name_full THEN HoverStyle(f) ELSE getFeatureStyle(f)

\* a mouseover that selects the ward it enters
MouseOverSelects(f) ==
    /\ f \in Regions
    /\ hoverStyled = NULL
    /\ hoverStyled' = f.ward_name_full
    /\ selectedWard' = ClickWardName(f)
    /\ UNCHANGED <<predictions, loading, notification, clicks, extras, clickPending>>
    /\ UNCHANGED <<notifTimer, geoVars, appVars, panelVars, wwdVars, wwVars, fnVars>>

\* mouseover: the pointer enters the layer of f
MouseOver(f) ==
    /\ f \in Regions
    /\ hoverStyled = NULL
    /\ hoverStyled' = f.ward_name_full
    /\ UNCHANGED <<notifTimer, geoVars, uiVars, appVars, panelVars, wwdVars, wwVars, fnVars>>

\* mouseout: geoJsonRef.current.resetStyle(e.target)
MouseOut(f) ==
    /\ f \in Regions
    /\ hoverStyled = f.ward_name_full
    /\ hoverStyled' = NULL
    /\ UNCHANGED <<notifTimer, geoVars, uiVars, appVars, panelVars, wwdVars, wwVars, fnVars>>

\* one second passes on Notification's timer; when it expires onClose runs
NotificationTick ==
    /\ notifTimer > 0
    /\ notifTimer' = notifTimer - 1
    /\ notification' = IF notifTimer = 1 THEN NoNotification ELSE notification
    /\ UNCHANGED <<predictions, selectedWard, loading, clicks, extras, clickPending,
                   hoverStyled, appVars, panelVars, wwdVars, wwVars, fnVars,
                   geoVars>>

NextMap ==
    \/ \E data \in BoundaryBodies : BoundaryResolve(data)
    \/ BoundaryReject
    \/ \E f \in MapFeatures : Click(f)
    \/ \E i \in DOMAIN clickPending :
          \E prediction \in Responses(clickPending[i].wardCode) :
             ClickResolve(i, prediction)
    \/ \E i \in DOMAIN clickPending : \E e \in Failures : ClickReject(i, e)
    \/ \E f \in MapFeatures : MouseOver(f)
    \/ \E f \in MapFeatures : MouseOut(f)
    \/ NotificationClose
    \/ NotificationTick
    \/ \E models_loaded \in BOOLEAN : HealthResolve(models_loaded)
    \/ \E e \in Failures : HealthReject(e)
    \/ \E response \in BulkResponses : BulkResolve(response)
    \/ \E e \in Failures : BulkReject(e)

SpecMap == Init /\ [][NextMap]_vars

----------------------------------------------------------------------------
(* The transformations on their own: a response body is drawn, then one of *)
(* the transformations is applied to it                                    *)

\* bayesian_probability values around the thresholds 0.1, 0.3 and 0.7
ProbSamples == {Undef, 0, 5, 9, 10, 11, 20, 29, 30, 31, 50, 69, 70, 71, 75, 82, 100}

\* the clock readings of a run
MaxClock == 3

\* bodies with every combination of present and absent fields
RawInputs ==
    {[Raw(code, level, flood, prob, high) EXCEPT !.timestamp = ts] :
        code \in {"H/E", UndefString}, level \in {Undef, 0, 1, 2},
        flood \in BOOLEAN, prob \in ProbSamples, high \in BOOLEAN,
        ts \in {Undef, BackendTime}}

InitNormalize ==
    /\ predictions = EmptyMap
    /\ selectedWard = NULL
    /\ loading = FALSE
    /\ apiStatus = "checking"
    /\ error = NULL
    /\ notification = NoNotification
    /\ clicks = 0
    /\ extras = 0
    /\ clickPending = <<>>
    /\ panelPrediction = NullRecord
    /\ panelWeather = NullRecord
    /\ panelLoading = FALSE
    /\ panelError = NULL
    /\ panelPending = <<>>
    /\ wwdLiveData = NullRecord
    /\ wwdLoading = FALSE
    /\ wwdError = NULL
    /\ wwdPending = <<>>
    /\ healthPending = 1
    /\ bulkPending = 0
    /\ wwWeather = FALSE
    /\ wwLoading = TRUE
    /\ wwError = NULL
    /\ wwPending = <<[by |-> "effect"]>>
    /\ hoverStyled = NULL
    /\ notifTimer = 0
    /\ now = 1
    /\ rawIn \in RawInputs \cup {NullRecord}
    /\ normOut = [fn |-> "none"]
    /\ normAgain = [fn |-> "none"]
    /\ wardsData = NullRecord
    /\ wardsPending = TRUE

\* formatFloodPrediction(rawIn)
ApplyFormat ==
    /\ normOut.fn = "none"
    /\ normOut' = [fn |-> "formatFloodPrediction", out |-> formatFloodPrediction(rawIn)]
    /\ UNCHANGED <<now, rawIn, normAgain, geoVars, uiVars, appVars, panelVars, wwdVars, wwVars,
                   renderVars>>

\* the transformation of the click handler applied to rawIn
ApplyEnhanced ==
    /\ normOut.fn = "none"
    /\ ~IsNull(rawIn)
    /\ normOut' = [fn |-> "enhancedPrediction",
                   out |-> enhancedPrediction(rawIn, "Ward H/E", "H/E")]
    /\ UNCHANGED <<now, rawIn, normAgain, geoVars, uiVars, appVars, panelVars, wwdVars, wwVars,
                   renderVars>>

\* getRiskLevel(rawIn.bayesian_probability)
ApplyGetRiskLevel ==
    /\ normOut.fn = "none"
    /\ ~IsNull(rawIn)
    /\ normOut' = [fn |-> "getRiskLevel",
                   out |-> [category |-> getRiskLevel(rawIn.bayesian_probability)]]
    /\ UNCHANGED <<now, rawIn, normAgain, geoVars, uiVars, appVars, panelVars, wwdVars, wwVars,
                   renderVars>>

\* formatFloodPrediction(rawIn) once more, at a later moment
ApplyFormatAgain ==
    /\ normOut.fn = "formatFloodPrediction"
    /\ normAgain.fn = "none"
    /\ normAgain' = [fn |-> "formatFloodPrediction", out |-> formatFloodPrediction(rawIn)]
    /\ UNCHANGED <<now, rawIn, normOut, geoVars, uiVars, appVars, panelVars, wwdVars, wwVars,
                   renderVars>>

\* time passes
ClockTick ==
    /\ now < MaxClock
    /\ now' = now + 1
    /\ UNCHANGED <<rawIn, normOut, normAgain, geoVars, uiVars, appVars, panelVars, wwdVars,
                   wwVars, renderVars>>

NextNormalize ==
    ApplyFormat \/ ApplyEnhanced \/ ApplyGetRiskLevel \/ ApplyFormatAgain \/ ClockTick

SpecNormalize == InitNormalize /\ [][NextNormalize]_vars

----------------------------------------------------------------------------
(* The client functions of api.js on their own: an argument is drawn, one  *)
(* function is called with it, and its request, if it issues one, is       *)
(* answered or fails                                                       *)

\* the longest array handed to a function that takes the rainfall series
MaxSeriesLen == 16

\* Values passed as rainfallData: arrays of every length up to MaxSeriesLen,
\* the strings "" and "abcdefghijklmno", the number 0 and null
SeriesInputs ==
    {[kind |-> "array", len |-> n] : n \in 0..MaxSeriesLen}
        \cup {[kind |-> "string", len |-> n] : n \in {0, 15}}
        \cup {[kind |-> "number", len |-> 0], [kind |-> "null", len |-> 0]}

\* the ward codes passed to the functions that take one
WardInputs == {[kind |-> "ward", code |-> f.ward_code] : f \in Features}

\* Array.isArray(rainfallData) && rainfallData.length === 15
ValidSeries(rainfallData) == rainfallData.kind = "array" /\ rainfallData.len = 15

\* if (rainfallData): arrays are truthy, null, 0 and "" are not
Truthy(rainfallData) ==
    rainfallData.kind = "array" \/ (rainfallData.kind = "string" /\ rainfallData.len > 0)

ValidationMessage == "Rainfall data must be an array of exactly 15 values"

\* the catch block of predictFloodRisk on a failed request, as the parts of
\* the message it throws
predictFloodRiskError(e) ==
    IF e = "503" THEN <<"Model not loaded on server. Please check server logs.">>
    ELSE IF e = "400" THEN <<"Invalid request: ", "Unknown server error">>
    ELSE IF e # "none" THEN <<"Server error (", e, "): ", "Unknown server error">>
    ELSE <<"Cannot connect to backend server. Make sure your FastAPI server is running on http://127.0.0.1:8000">>

\* the catch block of predictFloodRiskWithWeather on a failed request
predictFloodRiskWithWeatherError(e) ==
    IF e = "503" THEN <<"Weather service not available. Please check API configuration.">>
    ELSE IF e = "400" THEN <<"Invalid request: ", "Unknown server error">>
    ELSE IF e # "none" THEN <<"Server error (", e, "): ", "Unknown server error">>
    ELSE <<"Cannot connect to backend server. Make sure your FastAPI server is running.">>

\* the functions that take the series, and those of the selection flow
SeriesFunctions == {"predictFloodRisk", "predictFloodRiskSimple", "predictFloodRiskWithWeather"}
WardFunctions ==
    {"predictSingleWard", "getWardFloodPrediction", "getWardCurrentWeather",
     "getAllWardsFloodPrediction", "checkFloodApiHealth"}

\* the message a function throws when its request fails with e
ClientError(fn, arg, e) ==
    CASE fn = "predictFloodRisk" -> predictFloodRiskError(e)
      [] fn = "predictFloodRiskSimple" -> <<AxiosMessage(e)>>
      [] fn = "predictFloodRiskWithWeather" -> predictFloodRiskWithWeatherError(e)
      [] fn = "predictSingleWard" -> <<predictSingleWardError(arg.code, e)>>
      [] fn = "getWardFloodPrediction" -> <<getWardFloodPredictionError(arg.code, e)>>
      [] fn = "getWardCurrentWeather" -> <<getWardCurrentWeatherError(arg.code, e)>>
      [] fn = "getAllWardsFloodPrediction" -> <<getAllWardsFloodPredictionError(e)>>
      [] fn = "checkFloodApiHealth" -> <<checkFloodApiHealthError(e)>>

\* the state of a call: the number of requests it has issued, and what it
\* threw, if it threw
Pending(fn) == [fn |-> fn, phase |-> "pending", requests |-> 1, message |-> <<>>,
                failure |-> "none"]
Threw(fn, requests, message, e) ==
    [fn |-> fn, phase |-> "threw", requests |-> requests, message |-> message,
     failure |-> e]

InitClient ==
    /\ predictions = EmptyMap
    /\ selectedWard = NULL
    /\ loading = FALSE
    /\ apiStatus = "checking"
    /\ error = NULL
    /\ notification = NoNotification
    /\ clicks = 0
    /\ extras = 0
    /\ clickPending = <<>>
    /\ panelPrediction = NullRecord
    /\ panelWeather = NullRecord
    /\ panelLoading = FALSE
    /\ panelError = NULL
    /\ panelPending = <<>>
    /\ wwdLiveData = NullRecord
    /\ wwdLoading = FALSE
    /\ wwdError = NULL
    /\ wwdPending = <<>>
    /\ healthPending = 1
    /\ bulkPending = 0
    /\ wwWeather = FALSE
    /\ wwLoading = TRUE
    /\ wwError = NULL
    /\ wwPending = <<[by |-> "effect"]>>
    /\ hoverStyled = NULL
    /\ notifTimer = 0
    /\ now = 1
    /\ rawIn \in SeriesInputs \cup WardInputs
    /\ normOut = [fn |-> "none"]
    /\ normAgain = [fn |-> "none"]
    /\ wardsData = NullRecord
    /\ wardsPending = TRUE

\* predictFloodRisk(rawIn) up to its await: the validation error is thrown
\* inside the try block and rewrapped by the last branch of the catch block
CallPredictFloodRisk ==
    /\ normOut.fn = "none"
    /\ rawIn \in SeriesInputs
    /\ normOut' = IF ~ValidSeries(rawIn)
                     THEN Threw("predictFloodRisk", 0,
                                <<"Request failed: ", ValidationMessage>>, "none")
                     ELSE Pending("predictFloodRisk")
    /\ UNCHANGED <<now, rawIn, normAgain, geoVars, uiVars, appVars, panelVars, wwdVars, wwVars,
                   renderVars>>

\* predictFloodRiskSimple without its validation
CallPredictFloodRiskSimpleNoCheck ==
    /\ normOut.fn = "none"
    /\ rawIn \in SeriesInputs
    /\ normOut' = Pending("predictFloodRiskSimple")
    /\ UNCHANGED <<now, rawIn, normAgain, geoVars, uiVars, appVars, panelVars, wwdVars, wwVars,
                   renderVars>>

\* predictFloodRiskSimple(rawIn) up to its await: the catch block rethrows
CallPredictFloodRiskSimple ==
    /\ normOut.fn = "none"
    /\ rawIn \in SeriesInputs
    /\ normOut' = IF ~ValidSeries(rawIn)
                     THEN Threw("predictFloodRiskSimple", 0, <<ValidationMessage>>, "none")
                     ELSE Pending("predictFloodRiskSimple")
    /\ UNCHANGED <<now, rawIn, normAgain, geoVars, uiVars, appVars, panelVars, wwdVars, wwVars,
                   renderVars>>

\* predictFloodRiskWithWeather(rawIn) up to its await: the series is
\* validated only inside if (rainfallData)
CallPredictFloodRiskWithWeather ==
    /\ normOut.fn = "none"
    /\ rawIn \in SeriesInputs
    /\ normOut' = IF Truthy(rawIn) /\ ~ValidSeries(rawIn)
                     THEN Threw("predictFloodRiskWithWeather", 0,
                                <<"Request failed: ", ValidationMessage>>, "none")
                     ELSE Pending("predictFloodRiskWithWeather")
    /\ UNCHANGED <<now, rawIn, normAgain, geoVars, uiVars, appVars, panelVars, wwdVars, wwVars,
                   renderVars>>

\* a function of the selection flow up to its await
CallWardFunction(fn) ==
    /\ normOut.fn = "none"
    /\ rawIn \in WardInputs
    /\ normOut' = Pending(fn)
    /\ UNCHANGED <<now, rawIn, normAgain, geoVars, uiVars, appVars, panelVars, wwdVars, wwVars,
                   renderVars>>

\* the request is answered: return response.data
ClientResolve ==
    /\ normOut.fn # "none"
    /\ normOut.phase = "pending"
    /\ normOut' = [normOut EXCEPT !.phase = "returned"]
    /\ UNCHANGED <<now, rawIn, normAgain, geoVars, uiVars, appVars, panelVars, wwdVars, wwVars,
                   renderVars>>

\* the request fails with e: the catch block of the function
ClientReject(e) ==
    /\ normOut.fn # "none"
    /\ normOut.phase = "pending"
    /\ normOut' = Threw(normOut.fn, normOut.requests, ClientError(normOut.fn, rawIn, e), e)
    /\ UNCHANGED <<now, rawIn, normAgain, geoVars, uiVars, appVars, panelVars, wwdVars, wwVars,
                   renderVars>>

NextClient ==
    \/ CallPredictFloodRisk
    \/ CallPredictFloodRiskSimple
    \/ CallPredictFloodRiskWithWeather
    \/ \E fn \in WardFunctions : CallWardFunction(fn)
    \/ ClientResolve
    \/ \E e \in AllFailures : ClientReject(e)

SpecClient == InitClient /\ [][NextClient]_vars

----------------------------------------------------------------------------
(* Quantities the properties speak of *)

\* the click handler's request of the most recent click is still in flight
LatestClickPending == \E i \in DOMAIN clickPending : clickPending[i].seq = clicks

\* requests to POST /predict/ward/{code} in flight: one per click handler,
\* one per loadWardPrediction, one per fetchLiveWeatherPrediction
InFlightPredict == Len(clickPending) + Len(panelPending) + Len(wwdPending)

\* requests to GET /weather/current/{code} in flight
InFlightWeather == Len(panelPending) + Len(wwdPending)

\* the keys of the predictions map that belong to feature f
KeysOf(f) == {k \in DOMAIN predictions : f \in FeaturesOfKey(k)}

\* the category the specification derives from a probability (in percent)
CategoryOf(p) ==
    IF p >= 70 THEN "critical"
    ELSE IF p >= 30 THEN "high"
    ELSE IF p >= 10 THEN "medium"
    ELSE "low"

\* the category, flood flag and probability a stored record carries,
\* whichever writer stored it
StoredCategory(rec) ==
    IF IsClickRecord(rec) THEN toLowerCase(rec.risk_level)
    ELSE IF rec.riskLevel = 2 THEN "high"
    ELSE IF rec.riskLevel = 1 THEN "medium"
    ELSE "low"
StoredWillFlood(rec) == IF IsClickRecord(rec) THEN rec.will_flood ELSE rec.willFlood
StoredProbability(rec) ==
    IF IsClickRecord(rec) THEN OrNum(rec.flood_risk_probability, 0)
    ELSE rec.bayesianProbability

\* the four risk categories of the legend
Categories == {"low", "medium", "high", "critical"}

----------------------------------------------------------------------------
(* Properties *)

\* C1: a response of the click handler that belongs to a click which is no
\* longer the most recent one, another ward having been selected since, is
\* discarded: the step that delivers it changes neither the predictions map
\* nor the selection.
C1_StaleResponseDiscarded ==
    [][\A i \in DOMAIN clickPending :
          \A prediction \in Responses(clickPending[i].wardCode) :
             (/\ clickPending[i].seq # clicks
              /\ clickPending[i].wardName # selectedWard
              /\ ClickResolve(i, prediction))
                => (predictions' = predictions /\ selectedWard' = selectedWard)]_vars

\* C2: while the request of the most recent click is in flight, loading is
\* true; no other completion clears it.
C2_LoadingWhileLatestPending == LatestClickPending => loading = TRUE

\* C3: a result of loadWardPrediction(A) that arrives when selectedWard is
\* no longer A is discarded: it is not stored as the panel's prediction or
\* weather and not forwarded to the predictions map.
C3_PanelStaleDiscarded ==
    [][\A i \in DOMAIN panelPending :
          \A predictionData \in Responses(panelPending[i].ward) :
             (panelPending[i].ward # selectedWard
                /\ PanelResolve(i, predictionData, Weather(panelPending[i].ward)))
                => UNCHANGED <<panelPrediction, panelWeather, predictions>>]_vars

\* C4: a rejected request of the click handler sets a non-empty
\* notification, leaves the predictions map as it was and clears loading;
\* and the predictions map changes only in a step in which a request of the
\* click handler, of the panel or of the bulk load is fulfilled.
C4_FailureSurfaced ==
    [][/\ \A i \in DOMAIN clickPending : \A e \in Failures :
             ClickReject(i, e) =>
                (notification' # NoNotification /\ predictions' = predictions /\ loading' = FALSE)
       /\ predictions' # predictions =>
             \/ \E i \in DOMAIN clickPending :
                   \E prediction \in Responses(clickPending[i].wardCode) :
                      ClickResolve(i, prediction)
             \/ \E i \in DOMAIN panelPending :
                   \E predictionData \in Responses(panelPending[i].ward) :
                      PanelResolve(i, predictionData, Weather(panelPending[i].ward))
             \/ \E response \in BulkResponses : BulkResolve(response)]_vars

\* C4 witness: the request of the only click was rejected with status 503
C4_Witness ==
    /\ clicks = 1
    /\ clickPending = <<>>
    /\ loading = FALSE
    /\ notification = ErrorNotification("Request failed with status code 503")
    /\ DOMAIN predictions = {}

\* C5: the set of keys of the predictions map never shrinks.
C5_KeysNeverShrink == [][DOMAIN predictions \subseteq DOMAIN predictions']_vars

\* C6: every entry of the predictions map is stored under the key the map
\* renderer looks its region up with, and no region has two entries.
C6_OneEntryPerRegion ==
    /\ \A k \in DOMAIN predictions : \E f \in Features : k = StyleWardName(f)
    /\ \A f \in Features : Cardinality(KeysOf(f)) <= 1

\* C7: one click issues exactly one request to POST /predict/ward/{code}
\* and exactly one to GET /weather/current/{code}, over all components.
C7_OneRequestPerClick ==
    [][\A f \in Features :
          Click(f) => /\ InFlightPredict' = InFlightPredict + 1
                      /\ InFlightWeather' = InFlightWeather + 1]_vars

\* C8: the risk category of a record committed by the click handler is the
\* category of its Bayesian probability after defaulting (Critical from
\* 0.7, High from 0.3, Medium from 0.1, else Low), and its fill is the color
\* of that category.
C8_CategoryFromBayesian ==
    \A k \in DOMAIN predictions :
        IsClickRecord(predictions[k]) =>
            /\ toLowerCase(predictions[k].risk_level)
                 = CategoryOf(OrNum(predictions[k].flood_risk_probability, 0))
            /\ getRiskColor(predictions[k].risk_level)
                 = getRiskColor(CategoryOf(OrNum(predictions[k].flood_risk_probability, 0)))

\* C9: getRiskLevel and the classification of bayesian_network.risk_level
\* in the click handler both map a probability p to Critical from 0.7, High
\* from 0.3, Medium from 0.1 and Low below.
C9_ProbabilityMapping ==
    /\ normOut.fn = "getRiskLevel" =>
          toLowerCase(normOut.out.category) = CategoryOf(rawIn.bayesian_probability)
    /\ normOut.fn = "enhancedPrediction" =>
          toLowerCase(normOut.out.bayesian_network.risk_level)
             = CategoryOf(OrNum(rawIn.bayesian_probability, 0))

\* C10: a response without bayesian_probability is committed with
\* probability 0, by the panel (formatFloodPrediction) and by the click
\* handler alike, and the click handler's category is then Low.
C10_MissingBayesianDefaults ==
    [][/\ \A i \in DOMAIN clickPending :
             \A prediction \in Responses(clickPending[i].wardCode) :
                (/\ ~IsNull(prediction)
                 /\ prediction.bayesian_probability = Undef
                 /\ ClickResolve(i, prediction))
                   => /\ predictions'[clickPending[i].wardName].flood_risk_probability = 0
                      /\ predictions'[clickPending[i].wardName].risk_level = "low"
       /\ \A i \in DOMAIN panelPending :
             \A predictionData \in Responses(panelPending[i].ward) :
                (/\ ~IsNull(predictionData)
                 /\ predictionData.bayesian_probability = Undef
                 /\ PanelResolve(i, predictionData, Weather(panelPending[i].ward)))
                   => predictions'[panelPending[i].ward].bayesianProbability = 0]_vars

\* C11: formatFloodPrediction returns a fully populated record for every
\* body, a null body included: the result is never null and none of its
\* fields is undefined.
C11_NormalizationTotal ==
    normOut.fn = "formatFloodPrediction" =>
        /\ ~IsNull(normOut.out)
        /\ normOut.out.wardCode # UndefString
        /\ normOut.out.riskLevel # Undef
        /\ normOut.out.bayesianProbability # Undef
        /\ normOut.out.timestamp # Undef

\* C12 as stated: two applications of formatFloodPrediction to the same
\* body, at any two moments, return the same value.
C12_SameOutputAtAnyTime ==
    normAgain.fn = "formatFloodPrediction" => normAgain.out = normOut.out

\* C12: two applications of formatFloodPrediction to the same body agree on
\* every field but timestamp; timestamp is the body's own when it has one,
\* and otherwise the clock reading at the moment of the call, so the two
\* results agree on it only when the body carries a timestamp.
C12_DeterministicButTimestamp ==
    (normAgain.fn = "formatFloodPrediction" /\ ~IsNull(rawIn)) =>
        /\ \A k \in DOMAIN normOut.out \ {"timestamp"} :
              normAgain.out[k] = normOut.out[k]
        /\ rawIn.timestamp # Undef =>
              /\ normOut.out.timestamp = rawIn.timestamp
              /\ normAgain.out.timestamp = rawIn.timestamp
        /\ rawIn.timestamp = Undef =>
              /\ normOut.out.timestamp \in 1..now
              /\ normAgain.out.timestamp \in normOut.out.timestamp..now

\* C12 witness: a body without timestamp was formatted at two different
\* moments and the two results differ in timestamp only
C12_Witness ==
    /\ normAgain.fn = "formatFloodPrediction"
    /\ ~IsNull(rawIn)
    /\ rawIn.timestamp = Undef
    /\ normAgain.out.timestamp # normOut.out.timestamp
    /\ [normAgain.out EXCEPT !.timestamp = 0] = [normOut.out EXCEPT !.timestamp = 0]

\* C13: whatever the predictions map holds, the statistics report the
\* number of entries, per category the number of entries of that category,
\* the number of entries expected to flood, and the mean of the stored
\* probabilities.
C13_StatsMatchEntries ==
    LET stats == calculateStats(predictions)
        keys == DOMAIN predictions
        Count(category) ==
            Cardinality({k \in keys : StoredCategory(predictions[k]) = category})
    IN /\ stats.totalWards = Cardinality(keys)
       /\ stats.lowRisk = Count("low")
       /\ stats.mediumRisk = Count("medium")
       /\ stats.highRisk = Count("high")
       /\ stats.floodExpected
             = Cardinality({k \in keys : StoredWillFlood(predictions[k])})
       /\ keys # {} =>
             stats.avgBayesianProb
                = toFixed1(SumOver([k \in keys |-> StoredProbability(predictions[k])], keys),
                           Cardinality(keys))

\* C14: a region is drawn in the unanalyzed style (dashed outline, reduced
\* opacity) exactly when the predictions map has no entry for it, and a
\* region with an entry is filled with the color of the entry's category,
\* which is the fill of no other category (Low green, Medium yellow, High
\* orange, Critical red).
C14_StyleFollowsEntry ==
    \A f \in Features :
        LET style == getFeatureStyle(f)
        IN /\ (style.dashArray = "5, 5" /\ style.fillOpacity = 30) <=> KeysOf(f) = {}
           /\ \A k \in KeysOf(f) :
                 LET category == StoredCategory(predictions[k])
                 IN /\ style.fillColor = getRiskColor(category)
                    /\ \A other \in Categories \ {category} :
                          getRiskColor(other) # style.fillColor

\* C15: a layer is drawn with the outline of the selected ward (weight 4,
\* color #007bff) exactly when its feature is the selected ward, whatever
\* the pointer hovers over.
C15_OnlySelectedOutlined ==
    \A f \in MapFeatures :
        (LayerStyle(f).weight = 4 /\ LayerStyle(f).color = "#007bff")
            <=> selectedWard = StyleWardName(f)

\* C18: loading does not outlast the requests that clear it: when no
\* request of the click handler and no bulk load is in flight, loading is
\* false, whatever feature was clicked.
C18_LoadingCleared ==
    (clickPending = <<>> /\ bulkPending = 0) => loading = FALSE

\* C19: every rejected request of the click handler leaves a notification
\* on screen whose timer has the full five seconds to run, also when a
\* notification was already shown.
C19_FullExpiryPeriod ==
    [][\A i \in DOMAIN clickPending : \A e \in Failures :
          ClickReject(i, e) =>
             (notification' # NoNotification /\ notifTimer' = NotificationTimeout)]_vars

\* C16 as stated: a function that takes the series throws and issues no
\* request whenever the value supplied is not an array of exactly 15
\* entries.
C16_InvalidSeriesNeverPosted ==
    (normOut.fn \in SeriesFunctions /\ ~(rawIn.kind = "array" /\ rawIn.len = 15)) =>
        (normOut.phase = "threw" /\ normOut.requests = 0)

\* C16: predictFloodRisk and predictFloodRiskSimple throw the validation
\* error and issue no request whenever the value supplied is not an array
\* of exactly 15 entries; predictFloodRiskWithWeather does so only when the
\* value is truthy, and with null, 0 or "" it skips the validation and
\* issues its request; an array of exactly 15 entries is always posted.
C16_SeriesValidated ==
    normOut.fn \in SeriesFunctions =>
        LET is15 == rawIn.kind = "array" /\ rawIn.len = 15
            falsy == rawIn.kind \in {"null", "number"}
                        \/ (rawIn.kind = "string" /\ rawIn.len = 0)
            skipped == normOut.fn = "predictFloodRiskWithWeather" /\ falsy
        IN /\ (~is15 /\ ~skipped) =>
                 /\ normOut.phase = "threw"
                 /\ normOut.requests = 0
                 /\ normOut.message[Len(normOut.message)] = ValidationMessage
           /\ (is15 \/ skipped) => normOut.requests = 1

\* C16 witness: predictFloodRiskWithWeather was called with an array of 14
\* entries and threw without issuing a request
C16_Witness ==
    /\ normOut.fn = "predictFloodRiskWithWeather"
    /\ rawIn = [kind |-> "array", len |-> 14]
    /\ normOut.phase = "threw"
    /\ normOut.requests = 0

\* C17: what a function of the selection flow throws when its request
\* fails is never the axios error itself.
C17_NoRawTransportError ==
    (normOut.fn \in WardFunctions /\ normOut.phase = "threw") =>
        normOut.message # <<AxiosMessage(normOut.failure)>>

\* C20 as stated: while the error of a failed fetch of a weather component
\* is shown, no request of that component is issued by a timer.
C20_NoTimerRequestAfterFailure ==
    [][/\ (wwdError # NULL /\ Len(wwdPending') > Len(wwdPending)) =>
             wwdPending'[Len(wwdPending')].by # "interval"
       /\ (wwError # NULL /\ Len(wwPending') > Len(wwPending)) =>
             wwPending'[Len(wwPending')].by # "interval"]_vars

\* C20: a rejected fetch issues no request of its own: the step that
\* delivers the failure leaves one request fewer in flight.  New requests
\* come only from a click on the map, from a button of the component, or
\* from the interval timers of WardWeatherDetails (5 minutes) and
\* WeatherWidget (10 minutes), which fire whether or not the last fetch
\* failed.
C20_RequestsOnlyByUserOrInterval ==
    [][/\ \A i \in DOMAIN panelPending :
             \A message \in PanelMessages(panelPending[i].ward) :
                PanelReject(i, message) => Len(panelPending') = Len(panelPending) - 1
       /\ \A i \in DOMAIN wwdPending :
             \A message \in PanelMessages(wwdPending[i].ward) :
                WwdReject(i, message) => Len(wwdPending') = Len(wwdPending) - 1
       /\ \A i \in DOMAIN wwPending : \A e \in Failures :
             WwReject(i, e) => Len(wwPending') = Len(wwPending) - 1
       /\ Len(panelPending') > Len(panelPending) =>
             ((\E f \in Features : Click(f)) \/ PanelRefresh)
       /\ Len(wwdPending') > Len(wwdPending) =>
             ((\E f \in Features : Click(f)) \/ WwdRetry \/ WwdTimer)
       /\ Len(wwPending') > Len(wwPending) => (WwRetry \/ WwTimer)]_vars

\* C20 witness: the fetches of the panel and of both weather components
\* have failed, their errors are shown and no request is in flight
C20_Witness ==
    /\ selectedWard # NULL
    /\ panelError # NULL /\ panelPending = <<>>
    /\ wwdError # NULL /\ wwdPending = <<>>
    /\ wwError # NULL /\ wwPending = <<>>

\* C21: the live data WardWeatherDetails displays (liveData set and not
\* loading) under the heading of the selected ward was fetched for that
\* ward: a fetch started for another ward never commits.
C21_LiveDataOfSelectedWard ==
    (~IsNull(wwdLiveData) /\ ~wwdLoading) => wwdLiveData.ward = selectedWard

\* C22: the all-wards request is issued only by a fulfilled health check
\* that reported models_loaded or by the Refresh button; a health check that
\* is rejected or reports models not loaded issues no all-wards request and
\* leaves the risk state alone, so that after a failed startup health check
\* and without user events the risk state is empty and nothing is loading.
C22_HealthGating ==
    /\ []((clicks + extras = 0 /\ apiStatus = "error")
             => (predictions = EmptyMap /\ bulkPending = 0 /\ ~loading))
    /\ [][/\ bulkPending' > bulkPending => (HealthResolve(TRUE) \/ AppRefresh)
          /\ (HealthResolve(FALSE) \/ \E e \in Failures : HealthReject(e))
                => (bulkPending' = bulkPending /\ predictions' = predictions
                    /\ loading' = loading)]_vars

\* the startup health check was fulfilled with models not loaded: connected,
\* no all-wards request in flight or answered, risk state empty
C22_Witness ==
    /\ apiStatus = "connected" /\ healthPending = 0 /\ clicks + extras = 0
    /\ bulkPending = 0 /\ ~loading /\ error = NULL /\ predictions = EmptyMap

\* C23: once the load of the boundary resource has ended without a feature
\* collection (rejected, unparsable, or parsed to something else), the map is in boundary-less mode: the GeoJSON layer is not mounted,
\* there is no region to select, and selection and risk state are untouched.
C23_DegradedWithoutBoundaries ==
    (~wardsPending /\ ~IsFeatureCollection(wardsData))
        => (~GeoJsonMounted /\ Regions = {} /\ selectedWard = NULL
            /\ clicks = 0 /\ clickPending = <<>>)

\* the fetches a click on feature f issues, by kind: predictSingleWard of
\* the click handler, the panel's pair (its effect runs when selectedWard
\* changes) and WardWeatherDetails' pair (its effect runs when selectedWard
\* or wardCoordinates changes)
SelectFetches(f) ==
    [predict |-> IF f.hasRing THEN 1 ELSE 0,
     panel   |-> IF selectedWard # ClickWardName(f) THEN 1 ELSE 0,
     wwd     |-> IF selectedWard # ClickWardName(f) \/ f.hasRing THEN 1 ELSE 0]

\* the fetches a step issues, by kind
IssuedFetches ==
    [predict |-> Len(clickPending') - Len(clickPending),
     panel   |-> Len(panelPending') - Len(panelPending),
     wwd     |-> Len(wwdPending') - Len(wwdPending)]

\* C24 as stated: pressing the panel's retry/refresh button issues the same
\* fetches as a click on the currently selected region and sets the same
\* loading flag.
C24_RetryIsSelect ==
    [][PanelRefresh =>
          \E f \in Regions :
             /\ ClickWardName(f) = selectedWard
             /\ IssuedFetches = SelectFetches(f)
             /\ loading']_vars

\* C24 amended: the retry/refresh button re-invokes the panel's own load.
\* Every step that starts a panel load, a click that changes the selection
\* or a press of the button, appends one request for the ward then
\* selected, which is never null, sets the panel's loading flag and clears
\* its error; a press of the button issues no other fetch and leaves the
\* selection, the map's loading flag and the risk state alone.
C24_RetryReloadsPanel ==
    [][Len(panelPending') > Len(panelPending) =>
          /\ selectedWard' # NULL
          /\ panelPending' = Append(panelPending,
                                    [ward |-> selectedWard', seq |-> clicks'])
          /\ panelLoading' /\ panelError' = NULL
          /\ extras' = extras + 1 =>
                UNCHANGED <<clickPending, wwdPending, loading, selectedWard,
                            predictions>>]_vars

\* the button was pressed after the load of the first click had committed
C24_Witness ==
    /\ clicks = 1
    /\ ~IsNull(panelPrediction)
    /\ panelPending = <<[ward |-> selectedWard, seq |-> 1]>>

\* C25: a mouseover or mouseout step leaves the risk state, the selected
\* ward, the loading flag and the requests in flight unchanged; it changes
\* only which layer carries the hover style.
C25_HoverFrame ==
    [][(\E f \in MapFeatures : MouseOver(f) \/ MouseOut(f))
          => /\ UNCHANGED <<predictions, selectedWard, loading, clickPending>>
             /\ hoverStyled' # hoverStyled]_vars

\* a layer is hovered while the fetch of a click is in flight
C25_Witness ==
    /\ hoverStyled # NULL
    /\ clickPending # <<>>
    /\ loading

----------------------------------------------------------------------------
(* calculateCentroid as a function of the geometry of a feature            *)

\* the longest outer ring of a geometry the model draws from
MaxRing == 3

\* positions [longitude, latitude], in whole degrees
Positions == {<<72, 19>>, <<73, 19>>, <<72, 20>>}

\* linear rings of up to MaxRing positions
Rings == UNION {[1..n -> Positions] : n \in 1..MaxRing}

\* feature.geometry: a Polygon's coordinates are an array of rings, a
\* MultiPolygon's an array of polygons; also a Polygon without ring and one
\* whose ring is empty
Geometries ==
    {[type |-> "Polygon", coordinates |-> <<ring>>] : ring \in Rings}
      \cup {[type |-> "Polygon", coordinates |-> <<>>],
            [type |-> "Polygon", coordinates |-> << <<>> >>]}
      \cup {[type |-> "MultiPolygon", coordinates |-> << <<ring>> >>] : ring \in Rings}

\* JavaScript values of the arithmetic in calculateCentroid
JsNumber(n) == [t |-> "number", num |-> n, den |-> 1]
JsString == [t |-> "string"]
JsArray == [t |-> "array"]
NaN == [t |-> "NaN"]

\* a + b: numbers add, a number or string and an array concatenate to a string
JsAdd(a, b) ==
    IF a.t = "number" /\ b.t = "number" THEN JsNumber(a.num + b.num) ELSE JsString

\* a / n for a count n: 0 / 0 is NaN, and so is a string that holds a
\* comma-separated array
JsDiv(a, n) ==
    IF a.t = "number" /\ n # 0 THEN [t |-> "number", num |-> a.num, den |-> n] ELSE NaN

\* polygon[i][k] where polygon = coordinates[0]: a number when polygon is a
\* ring of positions, the array of a position when polygon is an array of
\* rings.  The code does not read geometry.type; the model reads it to know
\* how deep the arrays are nested.
PolygonItem(geometry, i, k) ==
    IF geometry.type = "Polygon"
       THEN JsNumber(geometry.coordinates[1][i][k + 1])
       ELSE JsArray

RECURSIVE CoordinateSum(_, _, _)
\* the value of x (k = 0) or y (k = 1) after the first i rounds of the loop
CoordinateSum(geometry, i, k) ==
    IF i = 0 THEN JsNumber(0)
    ELSE JsAdd(CoordinateSum(geometry, i - 1, k), PolygonItem(geometry, i, k))

\* calculateCentroid(feature.geometry.coordinates)
calculateCentroid(geometry) ==
    IF geometry.coordinates = <<>> THEN NullRecord
    ELSE LET polygon == geometry.coordinates[1]
         IN [longitude |-> JsDiv(CoordinateSum(geometry, Len(polygon), 0), Len(polygon)),
             latitude  |-> JsDiv(CoordinateSum(geometry, Len(polygon), 1), Len(polygon))]

InitCentroid ==
    /\ predictions = EmptyMap
    /\ selectedWard = NULL
    /\ loading = FALSE
    /\ apiStatus = "checking"
    /\ error = NULL
    /\ notification = NoNotification
    /\ clicks = 0
    /\ extras = 0
    /\ clickPending = <<>>
    /\ panelPrediction = NullRecord
    /\ panelWeather = NullRecord
    /\ panelLoading = FALSE
    /\ panelError = NULL
    /\ panelPending = <<>>
    /\ wwdLiveData = NullRecord
    /\ wwdLoading = FALSE
    /\ wwdError = NULL
    /\ wwdPending = <<>>
    /\ healthPending = 1
    /\ bulkPending = 0
    /\ wwWeather = FALSE
    /\ wwLoading = TRUE
    /\ wwError = NULL
    /\ wwPending = <<[by |-> "effect"]>>
    /\ hoverStyled = NULL
    /\ notifTimer = 0
    /\ now = 1
    /\ rawIn \in Geometries
    /\ normOut = [fn |-> "none"]
    /\ normAgain = [fn |-> "none"]
    /\ wardsData = NullRecord
    /\ wardsPending = TRUE

\* the click handler's calculateCentroid(feature.geometry.coordinates)
ApplyCentroid ==
    /\ normOut.fn = "none"
    /\ normOut' = [fn |-> "calculateCentroid", out |-> calculateCentroid(rawIn)]
    /\ UNCHANGED <<now, rawIn, normAgain, geoVars, uiVars, appVars, panelVars, wwdVars, wwVars,
                   renderVars>>

\* the same feature clicked again
ApplyCentroidAgain ==
    /\ normOut.fn = "calculateCentroid"
    /\ normAgain.fn = "none"
    /\ normAgain' = [fn |-> "calculateCentroid", out |-> calculateCentroid(rawIn)]
    /\ UNCHANGED <<now, rawIn, normOut, geoVars, uiVars, appVars, panelVars, wwdVars, wwVars,
                   renderVars>>

NextCentroid ==
    ApplyCentroid \/ ApplyCentroidAgain

SpecCentroid == InitCentroid /\ [][NextCentroid]_vars

\* the outer ring of a geometry: the first ring of a Polygon, the first ring
\* of the first polygon of a MultiPolygon
OuterRing(geometry) ==
    IF geometry.type = "Polygon" THEN geometry.coordinates[1]
    ELSE geometry.coordinates[1][1]

RECURSIVE RingSum(_, _, _)
\* the sum of coordinate k of the first i vertices of a ring
RingSum(ring, i, k) == IF i = 0 THEN 0 ELSE RingSum(ring, i - 1, k) + ring[i][k]

\* C26: for every geometry that has an outer ring, of a Polygon or of a
\* MultiPolygon, the centroid is the arithmetic mean of the ring's vertices
\* (longitude = mean of the longitudes, latitude = mean of the latitudes),
\* and computing it a second time gives the same value.
C26_CentroidIsRingMean ==
    /\ (normOut.fn = "calculateCentroid" /\ rawIn.coordinates # <<>>
          /\ OuterRing(rawIn) # <<>>)
         => LET ring == OuterRing(rawIn)
            IN normOut.out =
                  [longitude |-> [t |-> "number", num |-> RingSum(ring, Len(ring), 1),
                                  den |-> Len(ring)],
                   latitude  |-> [t |-> "number", num |-> RingSum(ring, Len(ring), 2),
                                  den |-> Len(ring)]]
    /\ normAgain.fn = "calculateCentroid" => normAgain.out = normOut.out

\* C27: after one click whose predictSingleWard and whose panel load have
\* both committed, the record stored under the selected ward is the same
\* whichever response arrived last: it has the fields and the fill of the
\* record the panel committed.
C27_OrderIndependent ==
    (/\ clicks = 1 /\ extras = 0
     /\ clickPending = <<>> /\ panelPending = <<>>
     /\ notification = NoNotification
     /\ ~IsNull(panelPrediction)
     /\ selectedWard \in DOMAIN predictions)
        => /\ DOMAIN predictions[selectedWard] = DOMAIN panelPrediction
           /\ getRiskColor(StyleRiskLevel(predictions[selectedWard]))
                 = getRiskColor(StyleRiskLevel(panelPrediction))

\* C28: a step in which a health check succeeds (apiStatus becomes
\* 'connected') clears the stored error of an earlier failure.
C28_ConnectedClearsError ==
    [][(healthPending' < healthPending /\ apiStatus' = "connected")
         => error' = NULL]_vars

\* C29: loadWardPrediction commits all or nothing.  A step in which its
\* Promise.all is rejected, by either request, leaves the panel's prediction
\* and weather and the risk state unchanged, sets the panel's error and
\* clears its loading flag; the panel's prediction and weather change only
\* in a step in which both requests were fulfilled, and then together with
\* the risk-state entry of the requested ward.
C29_AllOrNothing ==
    [][/\ (\E i \in DOMAIN panelPending :
             \E message \in PanelMessages(panelPending[i].ward) :
                PanelReject(i, message))
          => /\ UNCHANGED <<panelPrediction, panelWeather, predictions>>
             /\ panelError' # NULL
             /\ ~panelLoading'
       /\ (panelPrediction' # panelPrediction \/ panelWeather' # panelWeather)
          => \E i \in DOMAIN panelPending :
                /\ panelPending' = RemoveAt(panelPending, i)
                /\ ~IsNull(panelWeather')
                /\ panelPending[i].ward \in DOMAIN predictions'
                /\ predictions'[panelPending[i].ward] = panelPrediction']_vars

\* a reload failed after an earlier load had committed: the error is set,
\* the earlier prediction is still shown and stored
C29_Witness ==
    /\ panelError # NULL
    /\ ~panelLoading
    /\ ~IsNull(panelPrediction)
    /\ selectedWard \in DOMAIN predictions
    /\ predictions[selectedWard] = panelPrediction

====
